---------------------------- MODULE Spec2Model ----------------------------
(***************************************************************************)
(* Model of the three scripts of the repository:                           *)
(*   scripts/generate_local_data.py  (script = "local")                    *)
(*   scripts/generate_pubg_data.py   (script = "s3")                       *)
(*   pubg_api_fetcher.py             (script = "fetcher")                  *)
(*                                                                         *)
(* Spec      : the PUBGDataGenerator methods of the two generator scripts, *)
(*             called in the order main() calls them.                      *)
(* MainSpec  : main() of the two generator scripts, from argument parsing  *)
(*             to the process exit code.                                   *)
(* FetchSpec : main() of the fetcher with its PUBGAPIClient.               *)
(* EventSpec : the generator methods again, keeping the payload            *)
(*             (event_data) of every event.                                *)
(* JsonlSpec : the JSONL writers applied to a list of records.             *)
(* FlattenSpec : download_telemetry_data applied to a telemetry asset.     *)
(***************************************************************************)
EXTENDS Integers, Sequences, FiniteSets, TLC

VARIABLES
    script,            \* which script runs: "local", "s3" or "fetcher"
    pc,                \* position in the run
    raised,            \* "none", or the exception that propagated out
    exit_code,         \* -1 while the process runs, then its exit status
    num_players,       \* --players (generators); number of names (fetcher)
    num_matches,       \* --matches
    events_per_match,  \* --events
    players,           \* self.players / main's players
    matches,           \* self.matches / main's matches
    events,            \* the events list being built / returned
    mi,                \* index in self.matches of the match being processed
    ei,                \* -1 before the match's first step, then events made
    uuid_next,         \* next value uuid.uuid4() hands out
    clock,             \* wall clock, seconds
    fmt,               \* --format
    writes,            \* results of the dataset writes attempted so far
    success,           \* main's aggregate success flag
    bucket,            \* S3 bucket: "unchecked", "exists", "created", "failed"
    s3_calls,          \* the calls of the S3 client so far: [op, outcome]
    last_request_time, \* PUBGAPIClient.last_request_time
    api_log,           \* the last two _make_request calls: [time, ok]
    net_log,           \* the last three network calls: [kind, time]
    max_matches,       \* --max-matches
    shared,            \* history: a player named an id already collected
    all_match_ids,     \* main's all_match_ids
    todo,              \* loop state: players / match ids still to process
    requests,          \* the URLs requested so far, in order
    slow_responses,    \* number of slow responses so far
    data,              \* the records handed to a JSONL writer
    body,              \* the text a JSONL writer wrote, character by character
    telemetry_events   \* the parsed telemetry asset of a download

vars == <<script, pc, raised, exit_code, num_players, num_matches,
          events_per_match, players, matches, events, mi, ei, uuid_next,
          clock, fmt, writes, success, bucket, s3_calls, last_request_time,
          api_log, net_log,
          max_matches, shared, all_match_ids, todo, requests,
          slow_responses, data, body, telemetry_events>>

genVars == <<num_players, num_matches, events_per_match, players, matches,
             events, mi, ei, uuid_next>>
mainVars == <<fmt, writes, success, bucket, s3_calls>>
fetchVars == <<last_request_time, api_log, net_log, max_matches, shared,
               all_match_ids, todo, requests, slow_responses>>
ioVars == <<data, body, telemetry_events>>

(***************************************************************************)
(* Bounds of the model.                                                    *)
(***************************************************************************)
MaxPlayers == 2        \* --players is 0 or MaxPlayers
MaxMatches == 2        \* --matches ranges over 0..MaxMatches
MaxEvents == 2         \* --events ranges over 0..MaxEvents
MaxTotalEvents == 2    \* matches * events_per_match is at most this
MainMaxTotalEvents == 1  \* the same cap for the runs of main()
MaxNames == 2          \* the fetcher's --players has 1..MaxNames names
MaxMatchIds == 2       \* match ids the API knows; --max-matches is at most this
MaxRawEvents == 1      \* raw events in a telemetry asset
MaxSlow == 1           \* responses of a run slower than the interval
MaxRecords == 2        \* records handed to a JSONL writer
MaxChars == 2          \* characters of a record's string value
MaxAssetEvents == 2    \* raw events of a telemetry asset flattened on its own
DetailMaxSteps == 2     \* matches * (events_per_match + 1) of the runs that
                       \* keep the payloads

(***************************************************************************)
(* Program constants.                                                      *)
(***************************************************************************)
SecondsPerHour == 3600
MinHours == 1
MaxHours == 168
MinDuration == 1200
MaxDuration == 2400
StartTime == 700000    \* the wall clock when the process starts
NowUsec == 250000      \* microsecond part of datetime.now()
Million == 1000000
min_request_interval == 6
MaxZ == 1000
MinStackCount == 1
MaxStackCount == 10
MinCharacters == 50
MaxCharacters == 100
SlowResponse == 7      \* a response slower than the interval
FastResponse == 2      \* a response faster than the interval

(***************************************************************************)
(* random.randint(a, b): an integer of a..b, both ends included.  The      *)
(* model samples the two ends.                                             *)
(***************************************************************************)
RandInt(a, b) == {a, b}

(***************************************************************************)
(* datetime and timedelta: [sec, usec] with 0 <= usec < 10^6.              *)
(***************************************************************************)
DateTime(s, u) == [sec |-> s, usec |-> u]

DtAdd(dt, td) ==
    LET u == dt.usec + td.usec
    IN  IF u >= Million THEN DateTime(dt.sec + td.sec + 1, u - Million)
        ELSE DateTime(dt.sec + td.sec, u)

DtLe(a, b) == a.sec < b.sec \/ (a.sec = b.sec /\ a.usec <= b.usec)

DtLt(a, b) == a.sec < b.sec \/ (a.sec = b.sec /\ a.usec < b.usec)

\* datetime.isoformat(): the fraction is written only when it is not zero.
\* The string is modelled by its fields: <<seconds>> or <<seconds, micros>>.
isoformat(dt) == IF dt.usec = 0 THEN <<dt.sec>> ELSE <<dt.sec, dt.usec>>

\* datetime.fromisoformat(): a missing fraction reads as zero.
fromisoformat(s) ==
    IF Len(s) = 1 THEN DateTime(s[1], 0) ELSE DateTime(s[1], s[2])

\* datetime.now() on the model's clock
Now == DateTime(clock, NowUsec)

\* timedelta(seconds=random.uniform(0, duration)): rounded to microseconds,
\* between 0 and duration, both ends included.  The model samples the two
\* ends and one point in between.
UniformSample(d) ==
    {DateTime(0, 0), DateTime(0, Million - NowUsec), DateTime(d, 0)}

\* mutant: random.uniform(0, 2400), the longest duration, for every match
UniformSecondsLongest(duration) == UniformSample(MaxDuration)

UniformSeconds(duration) == UniformSample(duration)

(***************************************************************************)
(* uuid.uuid4(): 122 random bits.  The model hands out values that never   *)
(* repeat within a run.                                                    *)
(***************************************************************************)
\* mutant: a generator that hands out the same value again
Uuid4Repeat(k) == uuid_next

Uuid4(k) == uuid_next + k

(***************************************************************************)
(* The weight tables of generate_telemetry_events, in hundredths.          *)
(***************************************************************************)
LocalEventTypeWeights ==
    [LogPlayerPosition |-> 30, LogItemPickup |-> 20,
     LogPlayerTakeDamage |-> 15, LogPlayerKillV2 |-> 5, LogItemDrop |-> 10,
     LogItemEquip |-> 10, LogHeal |-> 5, LogPlayerAttack |-> 5]

S3EventTypeWeights ==
    [LogPlayerPosition |-> 30, LogItemPickup |-> 20,
     LogPlayerTakeDamage |-> 15, LogPlayerKillV2 |-> 5, LogItemDrop |-> 10,
     LogItemEquip |-> 10, LogHeal |-> 5, LogVehicleRide |-> 5]

event_type_weights == IF script = "s3" THEN S3EventTypeWeights
                      ELSE LocalEventTypeWeights

\* mutant: the first key of the table every time
WeightedChoiceFirst(w) == {"LogPlayerPosition"}

\* random.choices(keys, weights)[0]: a key of positive weight
WeightedChoice(w) == {t \in DOMAIN w : w[t] > 0}

(***************************************************************************)
(* generate_players: num_players records, self.players set to them.        *)
(***************************************************************************)
Player(i) == [account_id |-> Uuid4(i), player_name |-> i]

GeneratePlayers ==
    /\ pc = "start"
    /\ script \in {"local", "s3"}
    /\ players' = [i \in 1..num_players |-> Player(i - 1)]
    /\ uuid_next' = uuid_next + num_players
    /\ pc' = "players_done"
    /\ UNCHANGED <<script, raised, exit_code, num_players, num_matches,
                   events_per_match, matches, events, mi, ei, clock>>
    /\ UNCHANGED <<mainVars, fetchVars, ioVars>>

(***************************************************************************)
(* The class tables MAPS (coordinates in centimetres) and GAME_MODES.      *)
(***************************************************************************)
MAPS ==
    [Erangel |-> [max_x |-> 816000, max_y |-> 816000],
     Miramar |-> [max_x |-> 816000, max_y |-> 816000],
     Sanhok  |-> [max_x |-> 408000, max_y |-> 408000],
     Vikendi |-> [max_x |-> 816000, max_y |-> 816000],
     Karakin |-> [max_x |-> 204000, max_y |-> 204000],
     Taego   |-> [max_x |-> 816000, max_y |-> 816000],
     Deston  |-> [max_x |-> 816000, max_y |-> 816000],
     Haven   |-> [max_x |-> 102000, max_y |-> 102000]]

GAME_MODES == {"Solo", "Duo", "Squad"}

(***************************************************************************)
(* generate_matches.  A match record: its id, its map, its game mode,      *)
(* created_at as an isoformat string, its duration in seconds, the time of *)
(* its ingestion as an isoformat string.                                   *)
(***************************************************************************)
\* mutant: a match created at generation time
MatchCreatedNow(id, hours, duration, map_name, game_mode) ==
    [match_id |-> id,
     map_name |-> map_name,
     game_mode |-> game_mode,
     created_at |-> isoformat(Now),
     duration |-> duration,
     ingested_at |-> isoformat(Now)]

Match(id, hours, duration, map_name, game_mode) ==
    [match_id |-> id,
     map_name |-> map_name,
     game_mode |-> game_mode,
     created_at |-> isoformat(DateTime(clock - hours * SecondsPerHour,
                                       NowUsec)),
     duration |-> duration,
     ingested_at |-> isoformat(Now)]

\* The random draws of one match: hours before now, duration, map, game
\* mode.  The model samples four draws: every pairing of the ends of hours
\* and duration, the four sizes of map, the three game modes.
MatchDraws ==
    {<<h, d, m, g>> \in RandInt(MinHours, MaxHours)
                          \X RandInt(MinDuration, MaxDuration)
                          \X (DOMAIN MAPS) \X GAME_MODES :
        \/ h = MinHours /\ d = MinDuration /\ m = "Erangel" /\ g = "Solo"
        \/ h = MinHours /\ d = MaxDuration /\ m = "Haven" /\ g = "Duo"
        \/ h = MaxHours /\ d = MinDuration /\ m = "Sanhok" /\ g = "Squad"
        \/ h = MaxHours /\ d = MaxDuration /\ m = "Karakin" /\ g = "Solo"}

\* every list of n match records the draws can give
MatchLists(n) ==
    {[i \in 1..n |-> Match(Uuid4(i - 1), d[i][1], d[i][2], d[i][3],
                           d[i][4])] :
        d \in [1..n -> MatchDraws]}

\* The local script: every iteration builds a record and appends it.
\* The S3 script: the dict literal of the first iteration reads
\* match['match_id'] before match is bound, an UnboundLocalError, and
\* self.matches keeps its value.
MatchesBody(ms) ==
    IF script = "s3" /\ num_matches >= 1
    THEN /\ raised' = "UnboundLocalError"
         /\ pc' = "raised"
         /\ UNCHANGED <<matches, uuid_next>>
    ELSE /\ matches' = ms
         /\ uuid_next' = uuid_next + Len(ms)
         /\ pc' = "matches_done"
         /\ UNCHANGED raised

GenerateMatches ==
    /\ pc = "players_done"
    /\ \E ms \in MatchLists(IF num_matches > 0 THEN num_matches ELSE 0) :
           MatchesBody(ms)
    /\ UNCHANGED <<script, exit_code, num_players, num_matches,
                   events_per_match, players, events, mi, ei, clock>>
    /\ UNCHANGED <<mainVars, fetchVars, ioVars>>

\* A caller that builds the match records itself: self.matches is a plain
\* attribute, read by generate_telemetry_events.
AssignMatches ==
    /\ pc = "players_done"
    /\ \E ms \in MatchLists(num_matches) :
           /\ matches' = ms
           /\ uuid_next' = uuid_next + Len(ms)
    /\ pc' = "matches_done"
    /\ UNCHANGED <<script, raised, exit_code, num_players, num_matches,
                   events_per_match, players, events, mi, ei, clock>>
    /\ UNCHANGED <<mainVars, fetchVars, ioVars>>

(***************************************************************************)
(* generate_telemetry_events, one loop iteration per step.                 *)
(***************************************************************************)
\* An event: its type, its timestamp as an isoformat string, its match, the
\* time of its ingestion as an isoformat string.  gen is the serial number
\* of the event's creation within the call.
Event(type, time, match, serial) ==
    [_T |-> type, _D |-> isoformat(time), match_id |-> match.match_id,
     ingested_at |-> isoformat(Now), gen |-> serial]

\* mutant: an event equal to an earlier one in type, time and match is
\* dropped
AppendEventDedup(list, e) ==
    IF \E i \in 1..Len(list) : /\ list[i]._T = e._T
                               /\ list[i]._D = e._D
                               /\ list[i].match_id = e.match_id
    THEN list
    ELSE Append(list, e)

\* mutant: events.insert(0, event)
AppendEventFront(list, e) == <<e>> \o list

\* list.append
AppendEvent(list, e) == Append(list, e)

(***************************************************************************)
(* The payload of an event (event_data) and the helpers that build it.     *)
(***************************************************************************)
\* random.choice(list): an index of the list
Choice(list) == 1..Len(list)

\* mutant: the second player of an event is never the first one
SecondPlayerOther(first) == Choice(players) \ {first}

\* the second random.choice(self.players) of a kill or damage event, after
\* the one that gave the player `first`
SecondPlayer(first) == Choice(players)

\* a random scalar the model does not follow: attackId, distance, damage,
\* elapsedTime, numAlivePlayers, teamId, health, ranking and the zone flags
Drawn == "drawn"

\* random.uniform(0, bound) for each of x, y and z: the model samples the
\* corner at zero and the opposite corner
LocationSamples(map_bounds) ==
    {[x |-> 0, y |-> 0, z |-> 0],
     [x |-> map_bounds.max_x, y |-> map_bounds.max_y, z |-> MaxZ]}

\* mutant: the bounds of the largest map, whatever the match's map
GetRandomLocationLargest(map_name) == LocationSamples(MAPS["Erangel"])

\* _get_random_location(map_name): the coordinates of a new dict
GetRandomLocation(map_name) == LocationSamples(MAPS[map_name])

\* The dict _get_random_location returns.  id is the identity of the dict:
\* the number of the _get_random_location call, among those made for the
\* event, that built it.
Location(value, obj) ==
    [x |-> value.x, y |-> value.y, z |-> value.z, id |-> obj]

\* _get_random_item(): the model samples two entries of ITEMS
GetRandomItem ==
    {[itemId |-> "Item_Weapon_AK47_C", category |-> "Weapon",
      subCategory |-> "Main"],
     [itemId |-> "Item_Attach_Weapon_Stock_AR_Composite_C",
      category |-> "Attachment", subCategory |-> "None"]}

\* {**item, "stackCount": random.randint(1, 10)}
WithStackCount(item, n) ==
    [itemId |-> item.itemId, category |-> item.category,
     subCategory |-> item.subCategory, stackCount |-> n]

\* _generate_character_data(player, location): location is the dict handed
\* in, not a copy
GenerateCharacterData(player, location) ==
    [accountId |-> player.account_id, name |-> player.player_name,
     teamId |-> Drawn, health |-> Drawn, location |-> location,
     ranking |-> Drawn, isInBlueZone |-> Drawn, isInRedZone |-> Drawn]

KillData(killer, victim) ==
    [attackId |-> Drawn, killer |-> killer, victim |-> victim,
     damageReason |-> "ArmShot", damageTypeCategory |-> "Damage_Gun",
     damageCauserName |-> "Item_Weapon_AK47_C", distance |-> Drawn,
     damage |-> Drawn]

DamageData(attacker, victim) ==
    [attackId |-> Drawn, attacker |-> attacker, victim |-> victim,
     damageTypeCategory |-> "Damage_Gun", damageReason |-> "ArmShot",
     damage |-> Drawn, distance |-> Drawn]

PickupData(character, item) == [character |-> character, item |-> item]

PositionData(character) ==
    [character |-> character, elapsedTime |-> Drawn,
     numAlivePlayers |-> Drawn]

GenericData(character) == [character |-> character]

\* the character a builder makes of its n-th player and n-th location
Characters(p, map_name, n) ==
    {GenerateCharacterData(players[p], Location(l, n)) :
        l \in GetRandomLocation(map_name)}

\* every (first, second) pair of player indices a builder can draw
PlayerPairs == {pair \in Choice(players) \X Choice(players) :
                   pair[2] \in SecondPlayer(pair[1])}

\* The S3 script: _generate_kill_event and _generate_damage_event draw two
\* players and one location, handed to both characters; the other builders
\* draw one player and one location; the generic branch adds nothing.
S3EventData(type, match) ==
    LET map_name == match.map_name
        Both(pair) == {<<GenerateCharacterData(players[pair[1]],
                                               Location(l, 1)),
                         GenerateCharacterData(players[pair[2]],
                                               Location(l, 1))>> :
                          l \in GetRandomLocation(map_name)}
        Pairs == UNION {Both(pair) : pair \in PlayerPairs}
        Single == UNION {Characters(p, map_name, 1) : p \in Choice(players)}
    IN  IF type = "LogPlayerKillV2"
        THEN {KillData(c[1], c[2]) : c \in Pairs}
        ELSE IF type = "LogPlayerTakeDamage"
        THEN {DamageData(c[1], c[2]) : c \in Pairs}
        ELSE IF type = "LogItemPickup"
        THEN {PickupData(c, WithStackCount(item, n)) :
                 c \in Single, item \in GetRandomItem,
                 n \in RandInt(MinStackCount, MaxStackCount)}
        ELSE IF type = "LogPlayerPosition"
        THEN {PositionData(c) : c \in Single}
        ELSE {GenericData(c) : c \in Single}

\* The local script: every event begins with a player, a location and the
\* character made of them; a kill draws a victim with a location of its
\* own, a damage an attacker with a location of its own; LogItemDrop and
\* LogItemEquip add an item to the generic payload.
LocalEventData(type, match) ==
    LET map_name == match.map_name
        Both(pair) == Characters(pair[1], map_name, 1)
                          \X Characters(pair[2], map_name, 2)
        Pairs == UNION {Both(pair) : pair \in PlayerPairs}
        Single == UNION {Characters(p, map_name, 1) : p \in Choice(players)}
    IN  IF type = "LogPlayerKillV2"
        THEN {KillData(c[1], c[2]) : c \in Pairs}
        ELSE IF type = "LogPlayerTakeDamage"
        THEN {DamageData(c[2], c[1]) : c \in Pairs}
        ELSE IF type = "LogItemPickup"
        THEN {PickupData(c, WithStackCount(item, n)) :
                 c \in Single, item \in GetRandomItem,
                 n \in RandInt(MinStackCount, MaxStackCount)}
        ELSE IF type = "LogPlayerPosition"
        THEN {PositionData(c) : c \in Single}
        ELSE IF type \in {"LogItemDrop", "LogItemEquip"}
        THEN {PickupData(c, item) : c \in Single, item \in GetRandomItem}
        ELSE {GenericData(c) : c \in Single}

GeneratedEventData(type, match) ==
    IF script = "s3" THEN S3EventData(type, match)
    ELSE LocalEventData(type, match)

\* mutant: every match a Solo match
TeamSizeSolo(game_mode) == 1

\* 1 if Solo else (2 if Duo else 4)
TeamSize(game_mode) ==
    IF game_mode = "Solo" THEN 1 ELSE IF game_mode = "Duo" THEN 2 ELSE 4

\* The players of the n character entries of a match-start event, each a
\* random.choice(self.players).  The model samples two lists: the first
\* player every time, and the players in turn.
CharacterPicks(n) ==
    {[i \in 1..n |-> 1], [i \in 1..n |-> ((i - 1) % Len(players)) + 1]}

\* The coordinates of the n character entries of a match-start event, each
\* a _get_random_location(match["map_name"]).  The model samples one list:
\* the two sampled corners in turn.
CharacterLocations(map_name, n) ==
    LET near == CHOOSE l \in GetRandomLocation(map_name) : l.x = 0
        far == CHOOSE l \in GetRandomLocation(map_name) : l.x # 0
    IN  [i \in 1..n |-> IF i % 2 = 1 THEN near ELSE far]

\* _generate_match_start_event: the payload with the characters of the
\* players pick at the coordinates locs
MatchStartPayload(match, pick, locs) ==
    [mapName |-> match.map_name,
     weatherId |-> "Clear",
     characters |->
         [i \in 1..Len(pick) |->
             [character |-> GenerateCharacterData(players[pick[i]],
                                                  Location(locs[i], i)),
              primaryWeaponFirst |-> "", primaryWeaponSecond |-> "",
              secondaryWeapon |-> "", spawnKitIndex |-> 0]],
     cameraViewBehaviour |-> "FPP",
     teamSize |-> TeamSize(match.game_mode),
     isCustomGame |-> FALSE,
     isEventMode |-> FALSE]

\* the payloads of a match-start event: random.randint(50, 100) characters
MatchStartData(match) ==
    UNION {{MatchStartPayload(match, pick,
                              CharacterLocations(match.map_name, n)) :
               pick \in CharacterPicks(n)} :
           n \in RandInt(MinCharacters, MaxCharacters)}

\* What the model keeps of an event built with one of the payloads datas:
\* the header alone; the header and the payload; the header without its
\* timestamp and the payload.
HeaderOnly(e, datas) == {e}

WithoutTime(e, datas) ==
    {[_T |-> e._T, match_id |-> e.match_id, ingested_at |-> e.ingested_at,
      gen |-> e.gen, event_data |-> d] : d \in datas}

WithEventData(e, datas) ==
    {[_T |-> e._T, _D |-> e._D, match_id |-> e.match_id,
      ingested_at |-> e.ingested_at, gen |-> e.gen, event_data |-> d] :
        d \in datas}

\* what the model keeps of an event, by the name of the choice
Keep(kept, e, datas) ==
    IF kept = "header" THEN HeaderOnly(e, datas)
    ELSE IF kept = "payload" THEN WithoutTime(e, datas)
    ELSE WithEventData(e, datas)

\* the timestamp of a generated event
EventTime(match, offset) == DtAdd(fromisoformat(match.created_at), offset)

\* the timestamp handed to _generate_match_start_event
MatchStartTime(match) == fromisoformat(match.created_at)

\* (pc, mi, ei) after the match's k-th event: the next match once the inner
\* loop is over, the return once the outer loop is over
AfterEvent(k) ==
    IF k >= events_per_match
    THEN /\ mi' = mi + 1
         /\ ei' = -1
         /\ pc' = IF mi + 1 > Len(matches) THEN "events_done" ELSE pc
    ELSE /\ mi' = mi
         /\ ei' = k
         /\ pc' = pc

\* random.choice(self.players) on an empty list: IndexError out of the
\* method, whose events list is lost
\* mutant: sampling from an empty player list ends the call normally
SkipEmptyChoice ==
    /\ pc' = "events_done"
    /\ events' = <<>>
    /\ UNCHANGED <<raised, mi, ei>>

RaiseIndexError ==
    /\ raised' = "IndexError"
    /\ pc' = "raised"
    /\ events' = <<>>
    /\ UNCHANGED <<mi, ei>>

CallGenerateTelemetryEvents ==
    /\ pc = "matches_done"
    /\ pc' = IF matches = <<>> THEN "events_done" ELSE "telemetry"
    /\ events' = <<>>
    /\ mi' = 1
    /\ ei' = -1
    /\ UNCHANGED <<script, raised, exit_code, num_players, num_matches,
                   events_per_match, players, matches, uuid_next, clock>>
    /\ UNCHANGED <<mainVars, fetchVars, ioVars>>

\* The head of the outer loop body.  The S3 script appends the match-start
\* event, whose characters are 50 to 100 random.choice(self.players); the
\* local script only parses created_at.
MatchBeginWith(kept) ==
    /\ pc = "telemetry"
    /\ mi <= Len(matches)
    /\ ei = -1
    /\ IF script = "s3"
       THEN IF players = <<>>
            THEN RaiseIndexError
            ELSE /\ \E e \in Keep(kept, Event("LogMatchStart",
                                        MatchStartTime(matches[mi]),
                                        matches[mi], Len(events) + 1),
                                  MatchStartData(matches[mi])) :
                        events' = AppendEvent(events, e)
                 /\ AfterEvent(0)
                 /\ UNCHANGED raised
       ELSE /\ AfterEvent(0)
            /\ UNCHANGED <<raised, events>>
    /\ UNCHANGED <<script, exit_code, num_players, num_matches,
                   events_per_match, players, matches, uuid_next, clock>>
    /\ UNCHANGED <<mainVars, fetchVars, ioVars>>

MatchBegin == MatchBeginWith("header")

\* One iteration of the inner loop: a timestamp, a type, then the builder
\* of the type, which begins with random.choice(self.players).
GenerateEventWith(kept) ==
    /\ pc = "telemetry"
    /\ mi <= Len(matches)
    /\ ei >= 0
    /\ ei < events_per_match
    /\ IF players = <<>>
       THEN RaiseIndexError
       ELSE /\ \E type \in WeightedChoice(event_type_weights),
                  offset \in UniformSeconds(matches[mi].duration) :
                   \E e \in Keep(kept,
                                Event(type, EventTime(matches[mi], offset),
                                      matches[mi], Len(events) + 1),
                                GeneratedEventData(type, matches[mi])) :
                       events' = AppendEvent(events, e)
            /\ AfterEvent(ei + 1)
            /\ UNCHANGED raised
    /\ UNCHANGED <<script, exit_code, num_players, num_matches,
                   events_per_match, players, matches, uuid_next, clock>>
    /\ UNCHANGED <<mainVars, fetchVars, ioVars>>

GenerateEvent == GenerateEventWith("header")

(***************************************************************************)
(* Spec: the generator's methods.                                          *)
(***************************************************************************)
Idle ==
    /\ pc = "start"
    /\ raised = "none"
    /\ exit_code = -1
    /\ players = <<>>
    /\ matches = <<>>
    /\ events = <<>>
    /\ mi = 0
    /\ ei = -1
    /\ uuid_next = 1
    /\ clock = StartTime
    /\ writes = <<>>
    /\ success = TRUE
    /\ bucket = "unchecked"
    /\ s3_calls = <<>>
    /\ last_request_time = 0
    /\ api_log = <<>>
    /\ net_log = <<>>
    /\ all_match_ids = {}
    /\ shared = FALSE
    /\ todo = <<>>
    /\ requests = <<>>
    /\ slow_responses = 0
    /\ body = <<>>
    /\ telemetry_events = <<>>

Init ==
    /\ Idle
    /\ script \in {"local", "s3"}
    /\ num_players \in {0, MaxPlayers}
    /\ num_matches \in 0..MaxMatches
    /\ events_per_match \in 0..MaxEvents
    /\ num_matches * events_per_match <= MaxTotalEvents
    /\ fmt = "json"
    /\ max_matches = 0
    /\ data = <<>>

Next ==
    \/ GeneratePlayers
    \/ GenerateMatches
    \/ AssignMatches
    \/ CallGenerateTelemetryEvents
    \/ MatchBegin
    \/ GenerateEvent

Spec == Init /\ [][Next]_vars

(***************************************************************************)
(* EventSpec: the generator's methods with the payload of every event.     *)
(* The timestamps of the generated events, which Spec follows, are left    *)
(* out.                                                                    *)
(***************************************************************************)
MatchBeginDetail == MatchBeginWith("timed payload")

GenerateEventDetail == GenerateEventWith("payload")

EventInit ==
    /\ Idle
    /\ script \in {"local", "s3"}
    /\ num_players \in {0, MaxPlayers}
    /\ num_matches \in 0..MaxMatches
    /\ events_per_match \in 0..MaxEvents
    /\ num_matches * (events_per_match + 1) <= DetailMaxSteps
    /\ fmt = "json"
    /\ max_matches = 0
    /\ data = <<>>

EventNext ==
    \/ GeneratePlayers
    \/ GenerateMatches
    \/ AssignMatches
    \/ CallGenerateTelemetryEvents
    \/ MatchBeginDetail
    \/ GenerateEventDetail

EventSpec == EventInit /\ [][EventNext]_vars

(***************************************************************************)
(* The dataset writers.  A write either succeeds or fails with an error:   *)
(* of the filesystem for the file writers, and for the S3 uploaders a      *)
(* botocore ClientError (an error response of the service) or another      *)
(* botocore error that is no ClientError (no connection, no credentials).  *)
(***************************************************************************)
WriteOutcomes ==
    IF script = "s3" THEN {"ok", "ClientError", "BotoCoreError"}
    ELSE {"ok", "OSError"}

\* what the writer's except clause catches: `except Exception` in
\* save_json_file and save_jsonl_file, `except ClientError` in
\* upload_json_data and upload_jsonl_data
WriterCatches(outcome) ==
    IF script = "s3" THEN outcome = "ClientError" ELSE TRUE

\* the writer main() picks for --format
Writer ==
    IF script = "s3"
    THEN IF fmt = "jsonl" THEN "upload_jsonl_data" ELSE "upload_json_data"
    ELSE IF script = "local" /\ fmt = "jsonl" THEN "save_jsonl_file"
         ELSE "save_json_file"

\* main's position once the datasets are in memory
ReadyToSave == IF script = "s3" THEN "bucket_ready" ELSE "events_done"

(***************************************************************************)
(* S3Uploader.create_bucket_if_not_exists, called by the S3 main() after   *)
(* the generation; main() returns when it answers False.                   *)
(***************************************************************************)
HeadBucketOutcomes == {"ok", "404", "403", "BotoCoreError"}
CreateBucketOutcomes == {"ok", "ClientError", "BotoCoreError"}

\* a call of the S3 client and what it did
S3Call(op, outcome) == [op |-> op, outcome |-> outcome]

\* mutant: create_bucket after any ClientError of the check
ShouldCreateOnError(head) == head \in {"404", "403"}

\* e.response['Error']['Code'] == '404'
ShouldCreate(head) == head = "404"

CreateBucketIfNotExists ==
    /\ script = "s3"
    /\ pc = "events_done"
    /\ \E head \in HeadBucketOutcomes, create \in CreateBucketOutcomes :
        IF head = "ok"
        THEN /\ s3_calls' = <<S3Call("head_bucket", head)>>
             /\ bucket' = "exists" /\ pc' = "bucket_ready"
             /\ UNCHANGED <<raised, exit_code>>
        ELSE IF head = "BotoCoreError"
        THEN /\ s3_calls' = <<S3Call("head_bucket", head)>>
             /\ bucket' = "failed" /\ pc' = "raised"
             /\ raised' = "BotoCoreError" /\ UNCHANGED exit_code
        ELSE IF ~ShouldCreate(head)
        THEN \* "Error checking bucket", then
             \* "Failed to create/access S3 bucket": main() returns
             /\ s3_calls' = <<S3Call("head_bucket", head)>>
             /\ bucket' = "failed" /\ pc' = "exited" /\ exit_code' = 0
             /\ UNCHANGED raised
        ELSE /\ s3_calls' = <<S3Call("head_bucket", head),
                              S3Call("create_bucket", create)>>
             /\ IF create = "ok"
                THEN /\ bucket' = "created" /\ pc' = "bucket_ready"
                     /\ UNCHANGED <<raised, exit_code>>
                ELSE IF create = "BotoCoreError"
                THEN /\ bucket' = "failed" /\ pc' = "raised"
                     /\ raised' = "BotoCoreError" /\ UNCHANGED exit_code
                ELSE \* "Error creating bucket": main() returns
                     /\ bucket' = "failed" /\ pc' = "exited"
                     /\ exit_code' = 0 /\ UNCHANGED raised
    /\ UNCHANGED <<script, clock, fmt, writes, success>>
    /\ UNCHANGED <<genVars, fetchVars, ioVars>>

(***************************************************************************)
(* The end of main(): success = True, then three times                     *)
(* success &= write(dataset, path), then the report and the exit.          *)
(***************************************************************************)
\* the write whose exception leaves the writer, 4 when there is none
FirstPropagating(o) ==
    IF ~(o[1] = "ok" \/ WriterCatches(o[1])) THEN 1
    ELSE IF ~(o[2] = "ok" \/ WriterCatches(o[2])) THEN 2
    ELSE IF ~(o[3] = "ok" \/ WriterCatches(o[3])) THEN 3
    ELSE 4

\* The generators print a message either way and return; the fetcher calls
\* sys.exit(1) when a write failed.
ExitAfterSaving(ok) == IF script = "fetcher" /\ ~ok THEN 1 ELSE 0

SaveDatasets ==
    /\ pc = ReadyToSave
    /\ \E o \in [1..3 -> WriteOutcomes] :
        LET p == FirstPropagating(o)
            results == [k \in 1..(p - 1) |-> o[k] = "ok"]
            ok == \A k \in 1..(p - 1) : results[k]
            attempted == IF p <= 3 THEN p ELSE 3
        IN  /\ writes' = results
            /\ success' = ok
            /\ s3_calls' =
                   IF script = "s3"
                   THEN s3_calls \o [k \in 1..attempted |->
                                        S3Call("put_object", o[k])]
                   ELSE s3_calls
            /\ IF p <= 3
               THEN /\ raised' = o[p]
                    /\ pc' = "raised"
                    /\ UNCHANGED exit_code
               ELSE /\ pc' = "exited"
                    /\ exit_code' = ExitAfterSaving(ok)
                    /\ UNCHANGED raised
    /\ UNCHANGED <<script, clock, fmt, bucket>>
    /\ UNCHANGED <<genVars, fetchVars, ioVars>>

\* An exception nothing catches ends the interpreter with status 1.
UncaughtException ==
    /\ pc = "raised"
    /\ pc' = "exited"
    /\ exit_code' = 1
    /\ UNCHANGED <<script, raised, clock>>
    /\ UNCHANGED <<genVars, mainVars, fetchVars, ioVars>>

(***************************************************************************)
(* MainSpec: main() of the two generator scripts.                          *)
(***************************************************************************)
MainInit ==
    /\ Idle
    /\ script \in {"local", "s3"}
    /\ num_players \in {0, MaxPlayers}
    /\ num_matches \in 0..MaxMatches
    /\ events_per_match \in 0..MaxEvents
    /\ num_matches * events_per_match <= MainMaxTotalEvents
    /\ fmt \in {"json", "jsonl"}
    /\ max_matches = 0
    /\ data = <<>>

MainNext ==
    \/ GeneratePlayers
    \/ GenerateMatches
    \/ CallGenerateTelemetryEvents
    \/ MatchBegin
    \/ GenerateEvent
    \/ CreateBucketIfNotExists
    \/ SaveDatasets
    \/ UncaughtException

MainSpec == MainInit /\ [][MainNext]_vars

(***************************************************************************)
(* PUBGAPIClient: the rate gate and _make_request.                         *)
(***************************************************************************)
\* seconds a network call takes
Latencies ==
    {FastResponse} \cup
        (IF slow_responses < MaxSlow THEN {SlowResponse} ELSE {})

Took(lat) ==
    slow_responses' = slow_responses + (IF lat = SlowResponse THEN 1 ELSE 0)

\* mutant: the gate never sleeps
GateNoSleep(now, last) == now

\* _wait_for_rate_limit: the time at which it returns when called at `now`.
\* time.sleep(sleep_time) is taken to sleep exactly sleep_time.
GateIssueTime(now, last) ==
    LET time_since_last == now - last
    IN  IF time_since_last < min_request_interval
        THEN now + (min_request_interval - time_since_last)
        ELSE now

\* mutant: self.last_request_time = current_time, read before the sleep
StampBeforeSleep(now, issued) == now

\* self.last_request_time = time.time(), read after the sleep
Stamp(now, issued) == issued

\* what session.get / raise_for_status / response.json() can do
RequestOutcomes ==
    {"200", "429", "404", "500", "ConnectionError", "Timeout", "InvalidJSON"}

\* _make_request: the parsed body for a 200 with a JSON body, None for an
\* HTTPError and for any other RequestException (connection error, timeout,
\* requests' JSONDecodeError)
MakeRequestResult(outcome) == IF outcome = "200" THEN "json" ELSE "None"

\* the shapes of a parsed body: without a 'data' key, with a 'data' of the
\* documented structure, with a 'data' of another structure
BodyShapes == {"no_data", "good", "malformed"}

LastN(n, log) ==
    IF Len(log) > n THEN SubSeq(log, Len(log) - n + 1, Len(log)) ELSE log

\* the bookkeeping of one _make_request(url) that takes lat seconds
MakeRequest(url, outcome, lat) ==
    LET issued == GateIssueTime(clock, last_request_time)
    IN  /\ last_request_time' = Stamp(clock, issued)
        /\ clock' = issued + lat
        /\ api_log' = LastN(2, Append(api_log,
                            [time |-> issued, ok |-> outcome = "200"]))
        /\ net_log' = LastN(3, Append(net_log,
                            [kind |-> "api", time |-> issued]))
        /\ requests' = Append(requests, url)
        /\ Took(lat)

(***************************************************************************)
(* The fetcher's main().                                                   *)
(***************************************************************************)
FetchedPlayer(i) == [account_id |-> i, player_name |-> i]

\* sys.exit(1)
SysExit1 == pc' = "exited" /\ exit_code' = 1 /\ UNCHANGED raised

\* an exception out of a client method: nothing in main() catches it
Propagate(exc) == pc' = "raised" /\ raised' = exc /\ UNCHANGED exit_code

\* Step 1: client.get_players_by_names(args.players); `if not players`.
\* The API answers with the records of k of the names.
GetPlayersByNames ==
    /\ script = "fetcher"
    /\ pc = "start"
    /\ \E outcome \in RequestOutcomes, lat \in Latencies,
          shape \in BodyShapes, k \in 0..num_players :
        /\ MakeRequest(<<"players">>, outcome, lat)
        /\ IF MakeRequestResult(outcome) = "None" \/ shape = "no_data"
           THEN players' = <<>> /\ SysExit1 /\ UNCHANGED todo
           ELSE IF shape = "malformed"
           THEN players' = <<>> /\ Propagate("KeyError") /\ UNCHANGED todo
           ELSE /\ players' = [i \in 1..k |-> FetchedPlayer(i)]
                /\ IF k = 0
                   THEN SysExit1 /\ UNCHANGED todo
                   ELSE /\ pc' = "step2"
                        /\ todo' = [i \in 1..k |-> i]
                        /\ UNCHANGED <<raised, exit_code>>
    /\ UNCHANGED <<script, num_players, num_matches, events_per_match,
                   matches, events, mi, ei, uuid_next, max_matches,
                   shared, all_match_ids>>
    /\ UNCHANGED <<mainVars, ioVars>>

\* the lists of match ids the API can name for a player
MatchIdLists ==
    {<<>>} \cup {<<a>> : a \in 1..MaxMatchIds}
           \cup {<<a, b>> : a, b \in 1..MaxMatchIds}

\* match_ids[:max_matches], for max_matches >= 0
Limit(ids, n) == SubSeq(ids, 1, IF n < Len(ids) THEN n ELSE Len(ids))

Range(f) == {f[x] : x \in DOMAIN f}

\* mutant: the files are saved after the first match
AfterMatchSave(rem) == "events_done"

\* main's position after an iteration of step 3 that leaves the ids rem
AfterMatch(rem) == IF rem = {} THEN "events_done" ELSE "step3"

\* mutant: the check of all_match_ids left out
NoMatchesFoundNever(ids) == FALSE

\* `if not all_match_ids`
NoMatchesFound(ids) == ids = {}

\* Step 2, one iteration: client.get_player_matches(player), the slice, the
\* update of all_match_ids; after the last player, `if not all_match_ids`.
GetPlayerMatches ==
    /\ script = "fetcher"
    /\ pc = "step2"
    /\ todo # <<>>
    /\ \E outcome \in RequestOutcomes, lat \in Latencies,
          shape \in BodyShapes, ids \in MatchIdLists :
        /\ MakeRequest(<<"player", players[Head(todo)].account_id>>,
                       outcome, lat)
        /\ IF MakeRequestResult(outcome) = "json" /\ shape = "malformed"
           THEN Propagate("KeyError")
                /\ UNCHANGED <<all_match_ids, shared, todo>>
           ELSE LET match_ids ==
                        IF MakeRequestResult(outcome) = "None"
                               \/ shape = "no_data"
                        THEN <<>>
                        ELSE Limit(ids, max_matches)
                    found == all_match_ids \cup Range(match_ids)
                IN  /\ all_match_ids' = found
                    /\ shared' = (shared
                                    \/ Range(match_ids) \cap all_match_ids # {})
                    /\ IF Tail(todo) # <<>>
                       THEN /\ todo' = Tail(todo)
                            /\ UNCHANGED <<pc, raised, exit_code>>
                       ELSE IF NoMatchesFound(found)
                       THEN SysExit1 /\ todo' = <<>>
                       ELSE /\ pc' = AfterMatch(found)
                            /\ todo' = found
                            /\ UNCHANGED <<raised, exit_code>>
    /\ UNCHANGED <<script, num_players, num_matches, events_per_match,
                   players, matches, events, mi, ei, uuid_next,
                   max_matches>>
    /\ UNCHANGED <<mainVars, ioVars>>

\* mutant: the loop of step 3 takes an id again
RemainingAll(ids, id) == ids

\* `for i, match_id in enumerate(all_match_ids, 1)`: the ids of the set still
\* to come once id has been taken
Remaining(ids, id) == ids \ {id}

\* the telemetry URL get_match_data finds among the included assets
TelemetryUrls == {"None", "url"}

FetchedMatch(id, url) == [match_id |-> id, telemetry_url |-> url]

\* Step 3, one iteration up to the download: client.get_match_data(id) for
\* an id of the set not processed yet; `if not match_data: continue`;
\* matches.append; `if match_data.get('telemetry_url')`.
GetMatchData ==
    /\ script = "fetcher"
    /\ pc = "step3"
    /\ todo # {}
    /\ \E id \in todo, outcome \in RequestOutcomes, lat \in Latencies,
          shape \in BodyShapes, url \in TelemetryUrls :
        /\ MakeRequest(<<"match", id>>, outcome, lat)
        /\ todo' = Remaining(todo, id)
        /\ IF MakeRequestResult(outcome) = "json" /\ shape = "malformed"
           THEN Propagate("AttributeError") /\ UNCHANGED <<matches, mi>>
           ELSE IF MakeRequestResult(outcome) = "None" \/ shape = "no_data"
           THEN /\ pc' = AfterMatch(Remaining(todo, id))
                /\ UNCHANGED <<raised, exit_code, matches, mi>>
           ELSE /\ matches' = Append(matches, FetchedMatch(id, url))
                /\ IF url = "None"
                   THEN pc' = AfterMatch(Remaining(todo, id)) /\ UNCHANGED mi
                   ELSE pc' = "download" /\ mi' = id
                /\ UNCHANGED <<raised, exit_code>>
    /\ UNCHANGED <<script, num_players, num_matches, events_per_match,
                   players, events, ei, uuid_next, max_matches,
                   shared, all_match_ids>>
    /\ UNCHANGED <<mainVars, ioVars>>

\* what requests.get(telemetry_url) and the parsing can do; every exception
\* is caught inside download_telemetry_data
DownloadOutcomes == {"200", "404", "ConnectionError", "InvalidJSON",
                     "NotAList"}

RawEvent(i) == [_D |-> <<i>>, _T |-> "LogPlayerPosition"]

RawTelemetry == {[i \in 1..n |-> RawEvent(i)] : n \in 0..MaxRawEvents}

\* dict.get(key, default)
Get(dict, key, default) ==
    IF key \in DOMAIN dict THEN dict[key] ELSE default

\* the keys the comprehension of event_data leaves out
EnvelopeKeys == {"_D", "_T", "common", "match_id", "ingested_at"}

\* the raw event after event['match_id'] = match_id and
\* event['ingested_at'] = datetime.now().isoformat()
Stamped(event, id) ==
    [k \in DOMAIN event \cup {"match_id", "ingested_at"} |->
        IF k = "match_id" THEN id
        ELSE IF k = "ingested_at" THEN isoformat(Now)
        ELSE event[k]]

\* mutant: event_data holds every key of the stamped event
EventDataAll(event) == event

\* {k: v for k, v in event.items() if k not in [...]}
EventData(event) == [k \in DOMAIN event \ EnvelopeKeys |-> event[k]]

\* the record download_telemetry_data makes of a raw event; None is "None"
\* and the empty dict <<>>
ProcessedEvent(event, id) ==
    LET stamped == Stamped(event, id)
    IN  [_D |-> Get(stamped, "_D", "None"),
         _T |-> Get(stamped, "_T", "None"),
         common |-> Get(stamped, "common", <<>>),
         match_id |-> id,
         event_data |-> EventData(stamped),
         ingested_at |-> stamped["ingested_at"]]

\* the loop over telemetry_events
ProcessEvents(raw, id) == [i \in 1..Len(raw) |-> ProcessedEvent(raw[i], id)]

\* Step 3, the download of one iteration: requests.get on the asset URL,
\* outside the client's session and its rate gate.
DownloadTelemetryData ==
    /\ script = "fetcher"
    /\ pc = "download"
    /\ \E outcome \in DownloadOutcomes, lat \in Latencies,
          raw \in RawTelemetry :
        /\ net_log' = LastN(3, Append(net_log,
                            [kind |-> "telemetry", time |-> clock]))
        /\ requests' = Append(requests, <<"telemetry", mi>>)
        /\ clock' = clock + lat
        /\ Took(lat)
        /\ events' = IF outcome = "200"
                     THEN events \o ProcessEvents(raw, mi)
                     ELSE events
    /\ pc' = AfterMatch(todo)
    /\ mi' = 0
    /\ UNCHANGED <<script, raised, exit_code, num_players, num_matches,
                   events_per_match, players, matches, ei, uuid_next,
                   last_request_time, api_log, max_matches, shared,
                   all_match_ids, todo>>
    /\ UNCHANGED <<mainVars, ioVars>>

(***************************************************************************)
(* FetchSpec: main() of the fetcher.                                       *)
(***************************************************************************)
FetchInit ==
    /\ Idle
    /\ script = "fetcher"
    /\ num_players \in 1..MaxNames
    /\ num_matches = 0
    /\ events_per_match = 0
    /\ fmt = "json"
    /\ max_matches \in 0..MaxMatchIds
    /\ data = <<>>

FetchNext ==
    \/ GetPlayersByNames
    \/ GetPlayerMatches
    \/ GetMatchData
    \/ DownloadTelemetryData
    \/ SaveDatasets
    \/ UncaughtException

FetchSpec == FetchInit /\ [][FetchNext]_vars

(***************************************************************************)
(* download_telemetry_data called on its own, FlattenSpec: the asset is a  *)
(* JSON list of objects with any of the keys below.                        *)
(***************************************************************************)
RawKeys == {"_D", "_T", "common", "match_id", "ingested_at", "character"}

\* the value a raw event holds under a key
RawValue(k) ==
    IF k = "match_id" THEN 0
    ELSE IF k = "ingested_at" THEN <<0>>
    ELSE <<"raw", k>>

RawObjects == {[k \in keys |-> RawValue(k)] : keys \in SUBSET RawKeys}

RawAssets == UNION {[1..n -> RawObjects] : n \in 0..MaxAssetEvents}

\* client.download_telemetry_data(telemetry_url, match_id) with a URL that
\* is not empty
CallDownloadTelemetryData ==
    /\ script = "fetcher"
    /\ pc = "start"
    /\ \E id \in {1, MaxMatchIds}, outcome \in DownloadOutcomes,
          raw \in RawAssets :
        /\ mi' = id
        /\ net_log' = LastN(3, Append(net_log,
                            [kind |-> "telemetry", time |-> clock]))
        /\ requests' = Append(requests, <<"telemetry", id>>)
        /\ clock' = clock + FastResponse
        /\ IF outcome = "200"
           THEN /\ telemetry_events' = raw
                /\ events' = ProcessEvents(raw, id)
                /\ pc' = "flattened"
           ELSE /\ telemetry_events' = <<>>
                /\ events' = <<>>
                /\ pc' = "download_failed"
    /\ UNCHANGED <<script, raised, exit_code, num_players, num_matches,
                   events_per_match, players, matches, ei, uuid_next,
                   last_request_time, api_log, max_matches, shared,
                   all_match_ids, todo, slow_responses, data, body>>
    /\ UNCHANGED mainVars

FlattenInit ==
    /\ Idle
    /\ script = "fetcher"
    /\ num_players = 0
    /\ num_matches = 0
    /\ events_per_match = 0
    /\ fmt = "json"
    /\ max_matches = 0
    /\ data = <<>>

FlattenNext == CallDownloadTelemetryData

FlattenSpec == FlattenInit /\ [][FlattenNext]_vars

(***************************************************************************)
(* The JSONL writers: save_jsonl_file of the local script and              *)
(* S3Uploader.upload_jsonl_data.  A text is a sequence of characters; the  *)
(* characters of the model are the letter n, the line feed "LF", the       *)
(* backslash "BS", and the quote and the braces json.dumps adds.  A record  *)
(* is a dict with one string value.                                        *)
(***************************************************************************)
Chars == {"n", "LF", "BS"}

Strings == UNION {[1..k -> Chars] : k \in 0..MaxChars}

Record(str) == [player_name |-> str]

RecordLists == UNION {[1..k -> {Record(str) : str \in Strings}] :
                          k \in 0..MaxRecords}

\* the JSON escape of a character: \n for the line feed, \\ for the
\* backslash
EscapeChar(c) ==
    IF c = "LF" THEN <<"BS", "n">>
    ELSE IF c = "BS" THEN <<"BS", "BS">>
    ELSE <<c>>

RECURSIVE Escape(_)
Escape(str) ==
    IF str = <<>> THEN <<>> ELSE EscapeChar(Head(str)) \o Escape(Tail(str))

\* mutant: the string written as it is, without escapes
JsonDumpsRaw(record) ==
    <<"{", "QUOTE">> \o record.player_name \o <<"QUOTE", "}">>

\* json.dumps(record, default=str): one JSON object, compact, every control
\* character of a string escaped
JsonDumps(record) ==
    <<"{", "QUOTE">> \o Escape(record.player_name) \o <<"QUOTE", "}">>

\* the text save_jsonl_file writes: f.write(json.dumps(record) + '\n') for
\* each record
RECURSIVE WriteLines(_)
WriteLines(records) ==
    IF records = <<>> THEN <<>>
    ELSE JsonDumps(Head(records)) \o <<"LF">> \o WriteLines(Tail(records))

\* the text upload_jsonl_data puts: '\n'.join([json.dumps(record) ...])
RECURSIVE JoinLines(_)
JoinLines(records) ==
    IF records = <<>> THEN <<>>
    ELSE IF Len(records) = 1 THEN JsonDumps(records[1])
    ELSE JsonDumps(Head(records)) \o <<"LF">> \o JoinLines(Tail(records))

\* save_jsonl_file(data, filepath): True with the file written, False after
\* an exception (the model then says nothing of the file)
SaveJsonlFile ==
    /\ script = "local"
    /\ pc = "start"
    /\ \E outcome \in WriteOutcomes :
        IF outcome = "ok"
        THEN body' = WriteLines(data) /\ writes' = <<TRUE>>
        ELSE body' = <<>> /\ writes' = <<FALSE>>
    /\ pc' = "written"
    /\ UNCHANGED <<script, raised, exit_code, clock, fmt, success, bucket,
                   s3_calls, data, telemetry_events>>
    /\ UNCHANGED <<genVars, fetchVars>>

\* upload_jsonl_data(data, key): True after put_object, False after a
\* ClientError; another botocore error leaves the method
UploadJsonlData ==
    /\ script = "s3"
    /\ pc = "start"
    /\ \E outcome \in WriteOutcomes :
        /\ s3_calls' = Append(s3_calls, S3Call("put_object", outcome))
        /\ IF outcome = "ok"
           THEN /\ body' = JoinLines(data)
                /\ writes' = <<TRUE>>
                /\ pc' = "written"
                /\ UNCHANGED raised
           ELSE IF WriterCatches(outcome)
           THEN /\ body' = <<>>
                /\ writes' = <<FALSE>>
                /\ pc' = "written"
                /\ UNCHANGED raised
           ELSE /\ body' = <<>>
                /\ raised' = outcome
                /\ pc' = "raised"
                /\ UNCHANGED writes
    /\ UNCHANGED <<script, exit_code, clock, fmt, success, bucket, data,
                   telemetry_events>>
    /\ UNCHANGED <<genVars, fetchVars>>

JsonlInit ==
    /\ Idle
    /\ script \in {"local", "s3"}
    /\ num_players = 0
    /\ num_matches = 0
    /\ events_per_match = 0
    /\ fmt = "jsonl"
    /\ max_matches = 0
    /\ data \in RecordLists

JsonlNext ==
    \/ SaveJsonlFile
    \/ UploadJsonlData

JsonlSpec == JsonlInit /\ [][JsonlNext]_vars

(***************************************************************************)
(* Claims about the generator's methods (Spec).                            *)
(***************************************************************************)
\* the number of events a match contributes in the running script
GroupSize == events_per_match + (IF script = "s3" THEN 1 ELSE 0)

\* the match record of an id
MatchesWithId(id) == {k \in 1..Len(matches) : matches[k].match_id = id}

C2_TimestampInMatch ==
    \A i \in 1..Len(events) : \A k \in MatchesWithId(events[i].match_id) :
        LET start == fromisoformat(matches[k].created_at)
            stop == DtAdd(start, DateTime(matches[k].duration, 0))
            at == fromisoformat(events[i]._D)
        IN  DtLe(start, at) /\ DtLe(at, stop)

C2_Witness ==
    /\ pc = "events_done"
    /\ \E i, j \in 1..Len(events) :
        /\ events[i]._T = "LogMatchStart"
        /\ events[j]._T # "LogMatchStart"
        /\ events[j].match_id = events[i].match_id
        /\ \E k \in MatchesWithId(events[j].match_id) :
              fromisoformat(events[j]._D) =
                  DtAdd(fromisoformat(matches[k].created_at),
                        DateTime(matches[k].duration, 0))

C4_CountAndNoError ==
    /\ pc # "start" => Len(players) = num_players
    /\ raised # "UnboundLocalError"
    /\ pc = "matches_done" => Len(matches) = num_matches

\* the sum of the weights of a table
RECURSIVE SumOver(_, _)
SumOver(w, keys) ==
    IF keys = {} THEN 0
    ELSE LET k == CHOOSE x \in keys : TRUE
         IN  w[k] + SumOver(w, keys \ {k})

\* C16: every generated event that is no match-start event has a _T of the
\* script's weight table; the table has eight entries, position 30,
\* item-pickup 20, take-damage 15, kill 5, item-drop 10, item-equip 10,
\* heal 5 and a tail of 5, LogVehicleRide in the S3 script and
\* LogPlayerAttack in the local one; every entry can be drawn; the weights
\* sum to 100 hundredths.
C16_TypeOfTable ==
    LET w == event_type_weights
        tail == IF script = "s3" THEN "LogVehicleRide" ELSE "LogPlayerAttack"
    IN  /\ \A i \in 1..Len(events) :
              events[i]._T # "LogMatchStart" => events[i]._T \in DOMAIN w
        /\ DOMAIN w = {"LogPlayerPosition", "LogItemPickup",
                       "LogPlayerTakeDamage", "LogPlayerKillV2",
                       "LogItemDrop", "LogItemEquip", "LogHeal", tail}
        /\ Cardinality(DOMAIN w) = 8
        /\ w["LogPlayerPosition"] = 30 /\ w["LogItemPickup"] = 20
        /\ w["LogPlayerTakeDamage"] = 15 /\ w["LogPlayerKillV2"] = 5
        /\ w["LogItemDrop"] = 10 /\ w["LogItemEquip"] = 10
        /\ w["LogHeal"] = 5 /\ w[tail] = 5
        /\ WeightedChoice(w) = DOMAIN w
        /\ SumOver(w, DOMAIN w) = 100

C16_Witness ==
    /\ pc = "events_done"
    /\ script = "local"
    /\ Len(events) = 2
    /\ events[1]._T = "LogPlayerAttack"
    /\ events[2]._T = "LogHeal"

\* C11: the players one generate_players call returns have pairwise distinct
\* account_id values.
C11_AccountIdsDistinct ==
    \A i, j \in 1..Len(players) :
        players[i].account_id = players[j].account_id => i = j

C11_Witness ==
    /\ pc = "players_done"
    /\ Len(players) = MaxPlayers
    /\ players[1].account_id # players[2].account_id

(***************************************************************************)
(* Claims about main() of the generator scripts (MainSpec).                *)
(***************************************************************************)
\* C7: if any one of the three dataset writes fails to persist, the run
\* ends with exit code 1.
C7_FailedWriteExitsOne ==
    (pc = "exited" /\ \E k \in 1..Len(writes) : ~writes[k]) => exit_code = 1

\* an exception left one of the dataset writers
WriterRaised ==
    raised \in {"ClientError", "BotoCoreError", "OSError"}
        /\ bucket # "failed"

\* C9: each of the three writes is attempted whatever the others did, a
\* failed write is a False result and never an exception that propagates,
\* and the success flag is the AND of the three results.
C9_WritesIndependent ==
    /\ ~WriterRaised
    /\ (pc = "exited" /\ raised = "none" /\ bucket # "failed") =>
          /\ Len(writes) = 3
          /\ success = (writes[1] /\ writes[2] /\ writes[3])

\* the bucket was found or created by the first calls of the client
BucketEnsured ==
    /\ Len(s3_calls) >= 1
    /\ s3_calls[1].op = "head_bucket"
    /\ \/ s3_calls[1].outcome = "ok"
       \/ /\ s3_calls[1].outcome = "404"
          /\ Len(s3_calls) >= 2
          /\ s3_calls[2] = S3Call("create_bucket", "ok")

\* C20: the S3 main() ensures the bucket before any upload: create_bucket
\* is called only after a head_bucket that failed with 404, and when the
\* bucket neither exists nor can be created, or the check fails with
\* another error, no dataset upload is attempted.
C20_BucketBeforeUploads ==
    /\ \A i \in 1..Len(s3_calls) :
          /\ s3_calls[i].op = "create_bucket" =>
                (i = 2 /\ s3_calls[1] = S3Call("head_bucket", "404"))
          /\ s3_calls[i].op = "put_object" => (i >= 2 /\ BucketEnsured)
          /\ s3_calls[i].op = "head_bucket" => i = 1
    /\ bucket = "failed" =>
          /\ writes = <<>>
          /\ \A i \in 1..Len(s3_calls) : s3_calls[i].op # "put_object"

C20_Witness ==
    /\ pc = "exited"
    /\ bucket = "created"
    /\ Len(s3_calls) = 5
    /\ s3_calls[1] = S3Call("head_bucket", "404")
    /\ s3_calls[2] = S3Call("create_bucket", "ok")
    /\ s3_calls[5].op = "put_object"

(***************************************************************************)
(* Claims about the fetcher (FetchSpec).                                   *)
(***************************************************************************)
\* C5: two consecutive calls of _make_request are at least
\* min_request_interval apart, whether the earlier one succeeded or failed
\* and however long its response took.
C5_RequestsSpaced ==
    Len(api_log) = 2 =>
        api_log[2].time - api_log[1].time >= min_request_interval

C5_Witness ==
    /\ Len(api_log) = 2
    /\ ~api_log[1].ok
    /\ api_log[2].time - api_log[1].time = min_request_interval
    /\ slow_responses = 1

\* C6 (as stated): every network call, the telemetry download included,
\* passes the rate gate: no two network calls are less than one interval
\* apart.
C6_Original ==
    \A i \in 1..(Len(net_log) - 1) :
        net_log[i + 1].time - net_log[i].time >= min_request_interval

\* C6 (amended): every request made through _make_request passes the rate
\* gate, so no two API requests are less than one interval apart, also
\* with a telemetry download between them; the download itself is issued
\* outside the gate.
C6_ApiRequestsGated ==
    \A i, j \in 1..Len(net_log) :
        (i < j /\ net_log[i].kind = "api" /\ net_log[j].kind = "api") =>
            net_log[j].time - net_log[i].time >= min_request_interval

C6_Witness ==
    /\ Len(net_log) = 3
    /\ net_log[1].kind = "api"
    /\ net_log[2].kind = "telemetry"
    /\ net_log[3].kind = "api"
    /\ net_log[2].time - net_log[1].time < min_request_interval
    /\ net_log[3].time - net_log[1].time = min_request_interval

C10_ErrorsSkipped ==
    /\ raised = "none"
    /\ \A i, j \in 1..Len(requests) : requests[i] = requests[j] => i = j

(***************************************************************************)
(* Claims about the JSONL writers (JsonlSpec).                             *)
(***************************************************************************)
\* the lines of a text as str.splitlines() and a line-by-line reader give
\* them: a line ends at a line feed, a final line needs none
RECURSIVE SplitFrom(_, _, _)
SplitFrom(text, i, line) ==
    IF i > Len(text) THEN (IF line = <<>> THEN <<>> ELSE <<line>>)
    ELSE IF text[i] = "LF" THEN <<line>> \o SplitFrom(text, i + 1, <<>>)
    ELSE SplitFrom(text, i + 1, Append(line, text[i]))

SplitLines(text) == SplitFrom(text, 1, <<>>)

\* json.loads of a line: the record, or "invalid" for a text that is no
\* single JSON object of this shape
RECURSIVE Unescape(_)
Unescape(str) ==
    IF str = <<>> THEN <<>>
    ELSE IF Head(str) = "BS"
    THEN IF Len(str) >= 2 /\ str[2] = "n"
         THEN <<"LF">> \o Unescape(SubSeq(str, 3, Len(str)))
         ELSE IF Len(str) >= 2 /\ str[2] = "BS"
         THEN <<"BS">> \o Unescape(SubSeq(str, 3, Len(str)))
         ELSE <<"invalid">>
    ELSE <<Head(str)>> \o Unescape(Tail(str))

JsonLoads(line) ==
    IF /\ Len(line) >= 4
       /\ SubSeq(line, 1, 2) = <<"{", "QUOTE">>
       /\ SubSeq(line, Len(line) - 1, Len(line)) = <<"QUOTE", "}">>
    THEN Record(Unescape(SubSeq(line, 3, Len(line) - 2)))
    ELSE Record(<<"invalid">>)

\* C12: the text a JSONL writer produced has as many lines as there are
\* input records, line i is the JSON encoding of record i, and it parses
\* back to record i.
C12_OneLinePerRecord ==
    (pc = "written" /\ writes = <<TRUE>>) =>
        LET lines == SplitLines(body)
        IN  /\ Len(lines) = Len(data)
            /\ \A i \in 1..Len(data) :
                /\ lines[i] = JsonDumps(data[i])
                /\ JsonLoads(lines[i]) = data[i]

C12_Witness ==
    /\ pc = "written"
    /\ writes = <<TRUE>>
    /\ script = "s3"
    /\ Len(data) = 2
    /\ data[1].player_name = <<"LF", "BS">>
    /\ data[2].player_name = <<"BS", "n">>
    /\ Len(SplitLines(body)) = 2
(***************************************************************************)
(* Claims about download_telemetry_data (FlattenSpec).                     *)
(***************************************************************************)
\* C13: download_telemetry_data makes of every raw event a record with
\* exactly the keys _D, _T, common, match_id, event_data, ingested_at;
\* match_id is the match being processed; event_data holds exactly the raw
\* event's keys other than _D, _T, common, match_id, ingested_at with their
\* values; the output has one record per raw event in the same order.
C13_Flattened ==
    pc = "flattened" =>
        /\ Len(events) = Len(telemetry_events)
        /\ \A i \in 1..Len(events) :
            LET raw == telemetry_events[i]
                rec == events[i]
            IN  /\ DOMAIN rec = {"_D", "_T", "common", "match_id",
                                 "event_data", "ingested_at"}
                /\ rec.match_id = mi
                /\ rec._D = Get(raw, "_D", "None")
                /\ rec._T = Get(raw, "_T", "None")
                /\ rec.common = Get(raw, "common", <<>>)
                /\ DOMAIN rec.event_data = DOMAIN raw \ EnvelopeKeys
                /\ \A k \in DOMAIN rec.event_data : rec.event_data[k] = raw[k]

C13_Witness ==
    /\ pc = "flattened"
    /\ Len(telemetry_events) = 2
    /\ DOMAIN telemetry_events[1] = RawKeys
    /\ DOMAIN telemetry_events[2] = {"_T"}
    /\ DOMAIN events[1].event_data = {"character"}
    /\ events[1].match_id # telemetry_events[1].match_id
    /\ events[2].event_data = <<>>
(***************************************************************************)
(* Claims about the payload of the events (EventSpec).                     *)
(***************************************************************************)
\* the character snapshots an event carries
Snapshots(e) ==
    IF e._T = "LogMatchStart"
    THEN {e.event_data.characters[i].character :
             i \in 1..Len(e.event_data.characters)}
    ELSE IF e._T = "LogPlayerKillV2"
    THEN {e.event_data.killer, e.event_data.victim}
    ELSE IF e._T = "LogPlayerTakeDamage"
    THEN {e.event_data.attacker, e.event_data.victim}
    ELSE {e.event_data.character}

\* the account ids of the generated players
AccountIds == {players[i].account_id : i \in 1..Len(players)}

ItemKeys == {"itemId", "category", "subCategory"}

\* the keys of event_data the specification gives for each event type
KeysByType(type) ==
    IF type = "LogPlayerKillV2"
    THEN {"attackId", "killer", "victim", "damageReason",
          "damageTypeCategory", "damageCauserName", "distance", "damage"}
    ELSE IF type = "LogPlayerTakeDamage"
    THEN {"attackId", "attacker", "victim", "damageTypeCategory",
          "damageReason", "damage", "distance"}
    ELSE IF type = "LogPlayerPosition"
    THEN {"character", "elapsedTime", "numAlivePlayers"}
    ELSE IF type \in {"LogItemPickup", "LogItemDrop", "LogItemEquip"}
    THEN {"character", "item"}
    ELSE {"character"}

\* C14: the keys of event_data are determined by _T: LogItemDrop and
\* LogItemEquip carry a character and an item without stackCount,
\* LogItemPickup a character and an item with stackCount in 1..10, every
\* other type that is neither combat nor position a character only.
C14_ShapeByType ==
    \A i \in 1..Len(events) :
        LET e == events[i]
        IN  e._T # "LogMatchStart" =>
              /\ DOMAIN e.event_data = KeysByType(e._T)
              /\ e._T \in {"LogItemDrop", "LogItemEquip"} =>
                    DOMAIN e.event_data.item = ItemKeys
              /\ e._T = "LogItemPickup" =>
                    /\ DOMAIN e.event_data.item =
                           ItemKeys \cup {"stackCount"}
                    /\ e.event_data.item.stackCount
                           \in MinStackCount..MaxStackCount

\* the match-start events of the match with the id
MatchStarts(id) ==
    {i \in 1..Len(events) :
        events[i]._T = "LogMatchStart" /\ events[i].match_id = id}

\* what C15 says of the match-start event e of the match m
MatchStartAsClaimed(e, m) ==
    /\ e._D = m.created_at
    /\ Len(e.event_data.characters) \in MinCharacters..MaxCharacters
    /\ \A c \in Snapshots(e) : c.accountId \in AccountIds
    /\ e.event_data.teamSize =
           (IF m.game_mode = "Solo" THEN 1
            ELSE IF m.game_mode = "Duo" THEN 2 ELSE 4)

C17_NoSelfGuard ==
    /\ \A p \in Choice(players) : <<p, p>> \in PlayerPairs
    /\ \A i \in 1..Len(events) :
          events[i]._T \in {"LogPlayerKillV2", "LogPlayerTakeDamage"} =>
              \A c \in Snapshots(events[i]) : c.accountId \in AccountIds

C17_Witness ==
    /\ pc = "events_done"
    /\ Len(players) = MaxPlayers
    /\ \E i \in 1..Len(events) :
          /\ events[i]._T = "LogPlayerKillV2"
          /\ events[i].event_data.killer.accountId
                 = events[i].event_data.victim.accountId

\* C18: every location of every character snapshot of an event lies within
\* the bounds of the map of the event's match, and 0 <= z <= 1000.
C18_LocationInMap ==
    \A i \in 1..Len(events) : \A k \in MatchesWithId(events[i].match_id) :
        \A c \in Snapshots(events[i]) :
            /\ 0 <= c.location.x
            /\ c.location.x <= MAPS[matches[k].map_name].max_x
            /\ 0 <= c.location.y
            /\ c.location.y <= MAPS[matches[k].map_name].max_y
            /\ 0 <= c.location.z
            /\ c.location.z <= MaxZ

C18_Witness ==
    /\ pc = "events_done"
    /\ Len(matches) = 2
    /\ matches[1].map_name = "Erangel"
    /\ matches[2].map_name = "Haven"
    /\ Len(events) = 2
    /\ \E c \in Snapshots(events[1]) :
          c.location.x = MAPS["Erangel"].max_x
    /\ \E c \in Snapshots(events[2]) : c.location.x = MAPS["Haven"].max_x

\* C19: in every event with two character snapshots (kill, take-damage)
\* each snapshot has a location of its own, in both scripts.
C19_LocationsNotShared ==
    \A i \in 1..Len(events) :
        LET d == events[i].event_data
        IN  /\ events[i]._T = "LogPlayerKillV2" =>
                  d.killer.location.id # d.victim.location.id
            /\ events[i]._T = "LogPlayerTakeDamage" =>
                  d.attacker.location.id # d.victim.location.id
(***************************************************************************)
(* Claims about the order of the fetcher's steps (FetchSpec).              *)
(***************************************************************************)
\* the step of main() a request belongs to
StepOf(url) ==
    IF url[1] = "players" THEN 1 ELSE IF url[1] = "player" THEN 2 ELSE 3

\* the saved match records of an id
SavedMatches(id) == {k \in 1..Len(matches) : matches[k].match_id = id}

\* C21: the fetcher looks up the players, then the match ids of each
\* player, then the metadata of each match, each followed by its telemetry
\* download; a download is made only after the metadata fetch of the same
\* match succeeded and gave a telemetry URL; no file is written before all
\* matches have been processed.
C21_StepsInOrder ==
    /\ \A i, j \in 1..Len(requests) :
          i < j => StepOf(requests[i]) <= StepOf(requests[j])
    /\ \A i \in 1..Len(requests) :
          /\ requests[i][1] = "players" => i = 1
          /\ requests[i][1] = "telemetry" =>
                /\ i > 1
                /\ requests[i - 1] = <<"match", requests[i][2]>>
                /\ \E k \in SavedMatches(requests[i][2]) :
                       matches[k].telemetry_url # "None"
    /\ writes # <<>> =>
          /\ todo = {}
          /\ \A id \in all_match_ids :
                 \E i \in 1..Len(requests) : requests[i] = <<"match", id>>

C21_Witness ==
    /\ pc = "exited"
    /\ exit_code = 0
    /\ Len(writes) = 3
    /\ Cardinality(all_match_ids) = 2
    /\ Len(matches) = 1
    /\ Len(requests) = 6
    /\ requests[4][1] = "match"
    /\ requests[5][1] = "telemetry"
    /\ requests[6][1] = "match"
\* the metadata requests made so far
MatchRequests == {i \in 1..Len(requests) : requests[i][1] = "match"}

\* C22: a match id shared by several players is fetched at most once: no two
\* metadata requests name the same id, no two saved match records have the
\* same match_id, the match_id of every saved telemetry event is the
\* match_id of a saved match, and the number of metadata requests is at most
\* (number of players) * max_matches.
C22_SharedIdFetchedOnce ==
    /\ \A i, j \in MatchRequests : requests[i] = requests[j] => i = j
    /\ \A i, j \in 1..Len(matches) :
          matches[i].match_id = matches[j].match_id => i = j
    /\ \A k \in 1..Len(events) : SavedMatches(events[k].match_id) # {}
    /\ Cardinality(MatchRequests) <= Len(players) * max_matches

C22_Witness ==
    /\ pc = "exited"
    /\ exit_code = 0
    /\ Len(writes) = 3
    /\ shared
    /\ Len(players) = 2
    /\ all_match_ids = {1}
    /\ Cardinality(MatchRequests) = 1
    /\ Len(matches) = 1
    /\ Len(events) >= 1
(***************************************************************************)
(* Claims about the ingestion times of generated data (Spec).              *)
(***************************************************************************)
\* C23: the _D of every generated event is strictly earlier than the
\* event's ingested_at and than the ingested_at of the event's match.
C23_EventsInThePast ==
    \A i \in 1..Len(events) :
        LET at == fromisoformat(events[i]._D)
        IN  /\ DtLt(at, fromisoformat(events[i].ingested_at))
            /\ \A k \in MatchesWithId(events[i].match_id) :
                   DtLt(at, fromisoformat(matches[k].ingested_at))

C23_Witness ==
    /\ pc = "events_done"
    /\ \E i \in 1..Len(events) : \E k \in MatchesWithId(events[i].match_id) :
        /\ matches[k].duration = MaxDuration
        /\ fromisoformat(matches[k].created_at) =
               DateTime(clock - MinHours * SecondsPerHour, NowUsec)
        /\ fromisoformat(events[i]._D) =
               DtAdd(fromisoformat(matches[k].created_at),
                     DateTime(MaxDuration, 0))
        /\ fromisoformat(events[i].ingested_at) = Now
(***************************************************************************)
(* Claims about generate_telemetry_events without players (Spec).          *)
(***************************************************************************)
\* a match of the call requires an event: every match in the S3 script,
\* every match with events_per_match >= 1 in the local script
EventRequired ==
    matches # <<>> /\ (script = "s3" \/ events_per_match >= 1)

\* C24: generate_telemetry_events returns normally only if it never samples
\* from an empty player list: with no players and a match that requires an
\* event it raises and returns no events, and it raises in no other case;
\* with no matches it returns an empty list.
C24_EmptyPlayersRaise ==
    /\ pc = "events_done" => ~(players = <<>> /\ EventRequired)
    /\ raised = "IndexError" =>
          players = <<>> /\ EventRequired /\ events = <<>>
    /\ players = <<>> => events = <<>>
    /\ pc = "events_done" /\ matches = <<>> => events = <<>>

C24_Witness ==
    /\ raised = "IndexError"
    /\ script = "s3"
    /\ players = <<>>
    /\ Len(matches) = 2
    /\ events_per_match = 0
    /\ events = <<>>
============================================================================
